---------------------------- MODULE Spec2Model ----------------------------
(***************************************************************************)
(* Model of the code execution server of src/main.py: the request handler  *)
(* execute_python_code and the supervisor execute_code_with_timeout, with  *)
(* the process-wide streams sys.stdout / sys.stderr that redirect_stdout   *)
(* and redirect_stderr swap, the default thread pool executor that runs    *)
(* exec(), and the builtins namespace every execution scope refers to.     *)
(*                                                                         *)
(* The event loop runs one coroutine segment at a time: everything a       *)
(* coroutine does between two awaits is one action.  Worker threads run    *)
(* concurrently with the loop and with each other, one statement at a time.*)
(***************************************************************************)
EXTENDS Integers, Sequences, FiniteSets, TLC

(* Number of requests the clients send (numbered in order of arrival). *)
NumReq == 2

(* Threads of the loop's default executor (run_in_executor(None, ...)). *)
PoolSize == 1

(* Pieces of text the host process itself writes to sys.stdout/sys.stderr. *)
MaxHostWrites == 1

(* main.py line 19: the configured maximum, default of the environment variable. *)
PYTHON_EXECUTE_TIMEOUT == 3600

Req == 1..NumReq

(* Python's None, and Optional values: None is <<>>, a value v is <<v>>. *)
None == <<>>

Some(v) == <<v>>

(* sys.__stdout__ / sys.__stderr__, the streams in place at start-up, and  *)
(* the StringIO buffers of request r.                                      *)
Original == <<>>

Buffer(r) == <<r>>

(* The writer of the text that does not come from a run: the host process   *)
(* (the other handlers, the warnings of the modules they import).          *)
Host == 0

(***************************************************************************)
(* The submitted source texts.  Program(code) is what the compiled code    *)
(* does, statement by statement:                                           *)
(*   <<"print">>      write to sys.stdout (looked up when the call runs)    *)
(*   <<"eprint">>     write to sys.stderr                                   *)
(*   <<"bind">>       result = 42 in the run's globals                      *)
(*   <<"leak">>       builtins.leak = 'leaked'                              *)
(*   <<"peek">>       result = leak (globals first, then builtins)          *)
(*   <<"raise", K>>   raise an exception of class K                         *)
(*   <<"loop">>       while True: pass                                      *)
(***************************************************************************)
BlankCodes == {"", "  \n"}

BadCodes == {"x ="}

GoodCodes ==
    { "print('hi'); result = 42",
      "print('a'); sys.stderr.write('b'); result = 42; raise ValueError('boom')",
      "print('a'); result = 42\nwhile True: pass",
      "raise SystemExit(1)",
      "print('a'); exec('x =')",
      "raise asyncio.TimeoutError('slow')",
      "import builtins; builtins.leak = 'leaked'",
      "result = leak" }

Codes == BlankCodes \cup BadCodes \cup GoodCodes

Program(code) ==
    CASE code = "print('hi'); result = 42" -> << <<"print">>, <<"bind">> >>
      [] code = "print('a'); sys.stderr.write('b'); result = 42; raise ValueError('boom')"
            -> << <<"print">>, <<"eprint">>, <<"bind">>, <<"raise", "ValueError">> >>
      [] code = "print('a'); result = 42\nwhile True: pass"
            -> << <<"print">>, <<"bind">>, <<"loop">> >>
      [] code = "raise SystemExit(1)" -> << <<"raise", "SystemExit">> >>
      [] code = "print('a'); exec('x =')"
            -> << <<"print">>, <<"raise", "SyntaxError">> >>
      [] code = "raise asyncio.TimeoutError('slow')"
            -> << <<"raise", "TimeoutError">> >>
      [] code = "import builtins; builtins.leak = 'leaked'" -> << <<"leak">> >>
      [] code = "result = leak" -> << <<"peek">> >>
      [] OTHER -> << >>

(* str(e) of the exception an execution (or the compiler) raises. *)
Message(kind) ==
    CASE kind = "ValueError" -> "boom"
      [] kind = "SyntaxError" -> "invalid syntax (<string>, line 1)"
      [] kind = "TimeoutError" -> "slow"
      [] kind = "NameError" -> "name 'leak' is not defined"
      [] kind = "SystemExit" -> "1"
      [] OTHER -> ""

(* The classes that derive from Exception; SystemExit derives from          *)
(* BaseException only.                                                      *)
IsException(kind) == kind \in {"ValueError", "SyntaxError", "TimeoutError", "NameError"}

(* A variant of Strip that leaves the whitespace in place (only the empty   *)
(* code is falsy).                                                         *)
StripNothing(code) == code

(* request.code.strip(): falsy when the code is empty or whitespace only. *)
Strip(code) == IF code \in BlankCodes THEN "" ELSE code

(* compile(code, "<string>", "exec"): None, or the SyntaxError it raises. *)
Compile(code) == IF code \in BadCodes THEN Some("SyntaxError") ELSE None

(* The timeout field of a request: absent, or an integer. *)
Timeouts == {None, Some(0), Some(0 - 1), Some(2), Some(PYTHON_EXECUTE_TIMEOUT + 1)}

Min(a, b) == IF a <= b THEN a ELSE b

(* A variant of TimeoutOrDefault that tests `is None` instead of falsy. *)
TimeoutOrDefaultIfNone(t) ==
    IF t = None THEN PYTHON_EXECUTE_TIMEOUT ELSE t[1]

(* main.py line 164: request.timeout or PYTHON_EXECUTE_TIMEOUT. *)
TimeoutOrDefault(t) ==
    IF t = None THEN PYTHON_EXECUTE_TIMEOUT
    ELSE IF t[1] = 0 THEN PYTHON_EXECUTE_TIMEOUT
    ELSE t[1]

(* main.py lines 164-167. *)
EffectiveTimeout(t) == Min(TimeoutOrDefault(t), PYTHON_EXECUTE_TIMEOUT)

VARIABLES
    request,         \* request[r]: the CodeExecutionRequest, None before it arrives
    pc,              \* where the handler of request r is
    timeout,         \* the timeout execute_code_with_timeout was called with
    stdout_capture,  \* the StringIO of request r: the writers of its pieces of text
    stderr_capture,
    exec_globals,    \* the execution scope of request r (its bindings)
    builtins,        \* the interpreter's builtins namespace (its added bindings)
    sys_stdout,      \* the process-wide sys.stdout: Original or a Buffer
    sys_stderr,
    old_stdout,      \* what redirect_stdout of request r will restore
    old_stderr,
    worker,          \* the work item of request r in the executor
    ip,              \* statements of its program the worker has executed
    work_queue,      \* the executor's queue of work items not yet taken
    fut,             \* the asyncio future wait_for waits on
    outcome,         \* the dictionary execute_code_with_timeout returned
    host_writes,     \* pieces of text the host process has written so far
    steps            \* steps[r]: what was done for request r so far, in order

vars == << request, pc, timeout, stdout_capture, stderr_capture, exec_globals,
           builtins, sys_stdout, sys_stderr, old_stdout, old_stderr, worker, ip,
           work_queue, fut, outcome, host_writes, steps >>

Init ==
    /\ request = [r \in Req |-> None]
    /\ pc = [r \in Req |-> "idle"]
    /\ timeout = [r \in Req |-> 0]
    /\ stdout_capture = [r \in Req |-> << >>]
    /\ stderr_capture = [r \in Req |-> << >>]
    /\ exec_globals = [r \in Req |-> << >>]
    /\ builtins = << >>
    /\ sys_stdout = Original
    /\ sys_stderr = Original
    /\ old_stdout = [r \in Req |-> Original]
    /\ old_stderr = [r \in Req |-> Original]
    /\ worker = [r \in Req |-> "none"]
    /\ ip = [r \in Req |-> 0]
    /\ work_queue = << >>
    /\ fut = [r \in Req |-> "none"]
    /\ outcome = [r \in Req |-> None]
    /\ host_writes = 0
    /\ steps = [r \in Req |-> << >>]


(***************************************************************************)
(* The pieces of execute_code_with_timeout.                                *)
(***************************************************************************)

(* A variant of TimeoutErrorText that reports the configured maximum        *)
(* instead of the timeout the supervisor was called with.                  *)
TimeoutErrorTextOfMaximum(T) ==
    << "Execution timed out after ", ToString(PYTHON_EXECUTE_TIMEOUT), " seconds" >>

(* main.py line 106. *)
TimeoutErrorText(T) == << "Execution timed out after ", ToString(T), " seconds" >>

(* main.py line 108. *)
SyntaxErrorText(kind) == << "Syntax error: ", Message(kind) >>

(* main.py line 110: the class name, the message and the formatted trace. *)
RuntimeErrorText(kind) == << kind, ": ", Message(kind), "\n", "Traceback (most recent call last):" >>

(* A variant of ErrorFor with the clause for Exception tried before the     *)
(* clause for SyntaxError.                                                 *)
ErrorForGenericFirst(kind, T) ==
    IF kind = "TimeoutError" THEN Some(<< "Execution timed out after ", ToString(T), " seconds" >>)
    ELSE IF IsException(kind)
         THEN Some(<< kind, ": ", Message(kind), "\n", "Traceback (most recent call last):" >>)
    ELSE IF kind = "SyntaxError" THEN Some(<< "Syntax error: ", Message(kind) >>)
    ELSE None

(* main.py lines 105-110: the except clauses, tried in order.  None when    *)
(* no clause matches and the exception leaves the function.                *)
ErrorFor(kind, T) ==
    IF kind = "TimeoutError" THEN Some(TimeoutErrorText(T))
    ELSE IF kind = "SyntaxError" THEN Some(SyntaxErrorText(kind))
    ELSE IF IsException(kind) THEN Some(RuntimeErrorText(kind))
    ELSE None

(* main.py lines 102-103: the binding of `result` in the run's own scope. *)
ResultOf(globals) ==
    IF "result" \in DOMAIN globals THEN Some(globals["result"]) ELSE None

(* main.py lines 114-121 (execution_time is not modelled). *)
Envelope(success, out, err, result, error) ==
    [ success |-> success, stdout |-> out, stderr |-> err,
      result |-> result, error |-> error ]

(* A variant of SuccessOutcome that never looks `result` up. *)
SuccessOutcomeWithoutResult(r) ==
    Envelope(TRUE, stdout_capture[r], stderr_capture[r], None, None)

(* main.py lines 100-103 and 114-121: the return after the with block. *)
SuccessOutcome(r) ==
    Envelope(TRUE, stdout_capture[r], stderr_capture[r], ResultOf(exec_globals[r]), None)

(* A variant of FailureOutcome that copies `result` out of the scope on    *)
(* the failure paths too.                                                  *)
FailureOutcomeKeepsResult(r, error) ==
    Envelope(FALSE, stdout_capture[r], stderr_capture[r], ResultOf(exec_globals[r]), error[1])

(* main.py lines 72-74, 105-110 and 114-121: the return after an except    *)
(* clause; success and result keep their initial values.                   *)
FailureOutcome(r, error) ==
    Envelope(FALSE, stdout_capture[r], stderr_capture[r], None, error[1])

(* Name lookup of executed code: the run's globals, then the builtins. *)
Lookup(name, globals, bi) ==
    IF name \in DOMAIN globals THEN Some(globals[name])
    ELSE IF name \in DOMAIN bi THEN Some(bi[name])
    ELSE None

(* The stream writes of a worker: to whatever sys.stdout is at that moment. *)
Write(captures, target, w) ==
    IF target = Original THEN captures
    ELSE [captures EXCEPT ![target[1]] = Append(@, w)]

(* Threads of the pool that are running a work item. *)
Busy == {r \in Req : worker[r] = "running"}

(* The worker of q is in the endless loop of its code. *)
Hung(q) ==
    /\ worker[q] = "running"
    /\ ip[q] < Len(Program(request[q][1].code))
    /\ Program(request[q][1].code)[ip[q] + 1] = <<"loop">>

(* A variant of Prologue that compiles before it creates the scope. *)
PrologueCompileFirst == << "compile", "scope" >>

(* main.py lines 76-84: the scope is created, then the code is compiled. *)
Prologue == << "scope", "compile" >>

(* main.py lines 87-98: the capture is installed, then exec is handed to    *)
(* the executor, once.                                                     *)
Launch == << "capture", "dispatch" >>

(* A variant of Enqueue that submits the work item a second time. *)
EnqueueTwice(queue, r) == Append(Append(queue, r), r)

(* main.py lines 91-96: run_in_executor submits one work item. *)
Enqueue(queue, r) == Append(queue, r)

(* A variant of AfterCancel in which the cancellation also stops a worker   *)
(* that is running.                                                        *)
AfterCancelKilled(w) == IF w \in {"queued", "running"} THEN "cancelled" ELSE w

(* main.py lines 90-98: cancelling the future cancels a work item that no   *)
(* thread has taken; a thread that runs exec is not interrupted.           *)
AfterCancel(w) == IF w = "queued" THEN "cancelled" ELSE w

(* Request r did the steps `done`, after those it had already done. *)
Did(r, done) == steps' = [steps EXCEPT ![r] = @ \o done]

(***************************************************************************)
(* execute_python_code (lines 163-175) up to the first suspension of       *)
(* execute_code_with_timeout (line 90), which the event loop runs as one   *)
(* segment: the timeout, the check of the code, the buffers and the scope, *)
(* compile, the installation of the capture and the dispatch to the pool.  *)
(***************************************************************************)
Reject(r, code, t) ==
    /\ Strip(code) = ""
    /\ pc' = [pc EXCEPT ![r] = "rejected"]
    /\ timeout' = [timeout EXCEPT ![r] = EffectiveTimeout(t)]
    /\ UNCHANGED << stdout_capture, stderr_capture, exec_globals, builtins,
                    sys_stdout, sys_stderr, old_stdout, old_stderr, worker, ip,
                    work_queue, fut, outcome, steps >>

CompileFails(r, code, t) ==
    /\ Strip(code) # ""
    /\ Compile(code) # None
    /\ pc' = [pc EXCEPT ![r] = "returned"]
    /\ timeout' = [timeout EXCEPT ![r] = EffectiveTimeout(t)]
    /\ outcome' = [outcome EXCEPT ![r] =
            Some(FailureOutcome(r, ErrorFor(Compile(code)[1], EffectiveTimeout(t))))]
    /\ Did(r, Prologue)
    /\ UNCHANGED << stdout_capture, stderr_capture, exec_globals, builtins,
                    sys_stdout, sys_stderr, old_stdout, old_stderr, worker, ip,
                    work_queue, fut >>

Dispatch(r, code, t) ==
    /\ Strip(code) # ""
    /\ Compile(code) = None
    /\ pc' = [pc EXCEPT ![r] = "waiting"]
    /\ timeout' = [timeout EXCEPT ![r] = EffectiveTimeout(t)]
    \* redirect_stdout.__enter__, then redirect_stderr.__enter__
    /\ old_stdout' = [old_stdout EXCEPT ![r] = sys_stdout]
    /\ sys_stdout' = Buffer(r)
    /\ old_stderr' = [old_stderr EXCEPT ![r] = sys_stderr]
    /\ sys_stderr' = Buffer(r)
    \* loop.run_in_executor(None, exec, compiled_code, exec_globals)
    /\ worker' = [worker EXCEPT ![r] = "queued"]
    /\ work_queue' = Enqueue(work_queue, r)
    \* wait_for cancels the future at once when the timeout is not positive
    /\ fut' = [fut EXCEPT ![r] = IF EffectiveTimeout(t) <= 0 THEN "cancelled" ELSE "pending"]
    /\ Did(r, Prologue \o Launch)
    /\ UNCHANGED << stdout_capture, stderr_capture, exec_globals, builtins, ip, outcome >>

Submit(r) ==
    /\ pc[r] = "idle"
    /\ \A q \in Req : q < r => pc[q] # "idle"
    /\ UNCHANGED host_writes
    /\ \E code \in Codes, t \in Timeouts :
        /\ request' = [request EXCEPT ![r] = Some([code |-> code, timeout |-> t])]
        /\ \/ Reject(r, code, t)
           \/ CompileFails(r, code, t)
           \/ Dispatch(r, code, t)

(***************************************************************************)
(* The executor: a free thread takes the oldest work item and runs         *)
(* exec(compiled_code, exec_globals), one statement per step.              *)
(***************************************************************************)
WorkerStart(r) ==
    /\ worker[r] = "queued"
    /\ work_queue # << >>
    /\ Head(work_queue) = r
    /\ Cardinality(Busy) < PoolSize
    /\ worker' = [worker EXCEPT ![r] = "running"]
    /\ work_queue' = Tail(work_queue)
    /\ Did(r, << "exec" >>)
    /\ UNCHANGED << host_writes, request, pc, timeout, stdout_capture, stderr_capture,
                    exec_globals, builtins, sys_stdout, sys_stderr, old_stdout,
                    old_stderr, ip, fut, outcome >>

(* The worker is done: its result or exception reaches the future, unless   *)
(* the future was cancelled meanwhile.                                      *)
Finish(r, state) ==
    /\ worker' = [worker EXCEPT ![r] = "done"]
    /\ fut' = [fut EXCEPT ![r] = IF @ = "pending" THEN state ELSE @]

(* After statement number n: the program goes on, or exec returns. *)
Continue(r, n) ==
    IF n = Len(Program(request[r][1].code))
    THEN Finish(r, "finished")
    ELSE UNCHANGED << worker, fut >>

WorkerStep(r) ==
    /\ worker[r] = "running"
    /\ ip[r] < Len(Program(request[r][1].code))
    /\ LET stmt == Program(request[r][1].code)[ip[r] + 1]
           n == ip[r] + 1
       IN  /\ stmt[1] # "loop"
           /\ ip' = [ip EXCEPT ![r] = n]
           /\ \/ /\ stmt[1] = "print"
                 /\ stdout_capture' = Write(stdout_capture, sys_stdout, r)
                 /\ Continue(r, n)
                 /\ UNCHANGED << stderr_capture, exec_globals, builtins >>
              \/ /\ stmt[1] = "eprint"
                 /\ stderr_capture' = Write(stderr_capture, sys_stderr, r)
                 /\ Continue(r, n)
                 /\ UNCHANGED << stdout_capture, exec_globals, builtins >>
              \/ /\ stmt[1] = "bind"
                 /\ exec_globals' = [exec_globals EXCEPT ![r] = [result |-> "42"]]
                 /\ Continue(r, n)
                 /\ UNCHANGED << stdout_capture, stderr_capture, builtins >>
              \/ /\ stmt[1] = "leak"
                 /\ builtins' = [leak |-> "leaked"]
                 /\ Continue(r, n)
                 /\ UNCHANGED << stdout_capture, stderr_capture, exec_globals >>
              \/ /\ stmt[1] = "peek"
                 /\ Lookup("leak", exec_globals[r], builtins) # None
                 /\ exec_globals' = [exec_globals EXCEPT ![r] =
                        [result |-> Lookup("leak", exec_globals[r], builtins)[1]]]
                 /\ Continue(r, n)
                 /\ UNCHANGED << stdout_capture, stderr_capture, builtins >>
              \/ /\ stmt[1] = "peek"
                 /\ Lookup("leak", exec_globals[r], builtins) = None
                 /\ Finish(r, "NameError")
                 /\ UNCHANGED << stdout_capture, stderr_capture, exec_globals, builtins >>
              \/ /\ stmt[1] = "raise"
                 /\ Finish(r, stmt[2])
                 /\ UNCHANGED << stdout_capture, stderr_capture, exec_globals, builtins >>
    /\ UNCHANGED << request, pc, timeout, sys_stdout, sys_stderr, old_stdout,
                    old_stderr, work_queue, outcome, host_writes, steps >>

(***************************************************************************)
(* The event loop resumes the supervisor.                                  *)
(***************************************************************************)

(* redirect_stderr.__exit__, then redirect_stdout.__exit__ (line 87). *)
ReleaseCapture(r) ==
    /\ sys_stderr' = old_stderr[r]
    /\ sys_stdout' = old_stdout[r]

(* The future is done before the deadline: wait_for returns or raises what  *)
(* the worker did (lines 90-121).                                          *)
Complete(r) ==
    /\ pc[r] = "waiting"
    /\ fut[r] \notin {"none", "pending", "cancelled"}
    /\ ReleaseCapture(r)
    /\ \/ /\ fut[r] = "finished"
          /\ pc' = [pc EXCEPT ![r] = "returned"]
          /\ outcome' = [outcome EXCEPT ![r] = Some(SuccessOutcome(r))]
          /\ Did(r, << "extract" >>)
       \/ /\ fut[r] # "finished"
          /\ ErrorFor(fut[r], timeout[r]) # None
          /\ pc' = [pc EXCEPT ![r] = "returned"]
          /\ outcome' = [outcome EXCEPT ![r] =
                Some(FailureOutcome(r, ErrorFor(fut[r], timeout[r])))]
          /\ UNCHANGED steps
       \/ /\ fut[r] # "finished"
          /\ ErrorFor(fut[r], timeout[r]) = None
          /\ pc' = [pc EXCEPT ![r] = "crashed"]
          /\ UNCHANGED << outcome, steps >>
    /\ UNCHANGED << request, timeout, stdout_capture, stderr_capture, exec_globals,
                    builtins, old_stdout, old_stderr, worker, ip, work_queue, fut,
                    host_writes >>

(* The deadline of wait_for passes while the future is pending: the timer   *)
(* cancels the future (lines 90-98).                                       *)
Deadline(r) ==
    /\ pc[r] = "waiting"
    /\ fut[r] = "pending"
    \* a positive timeout is a second or more: a work item is still in the
    \* queue at its deadline only when every thread is held by a statement
    \* that takes that long
    /\ worker[r] = "queued" =>
          (Cardinality(Busy) >= PoolSize /\ \A q \in Busy : Hung(q))
    \* deadlines pass in the order of arrival plus timeout
    /\ \A q \in Req : (q < r /\ pc[q] = "waiting" /\ fut[q] = "pending") =>
          timeout[q] > timeout[r]
    /\ fut' = [fut EXCEPT ![r] = "cancelled"]
    /\ UNCHANGED << request, pc, timeout, stdout_capture, stderr_capture,
                    exec_globals, builtins, sys_stdout, sys_stderr, old_stdout,
                    old_stderr, worker, ip, work_queue, outcome, host_writes, steps >>

(* wait_for raises TimeoutError into the supervisor (lines 87, 105-106,     *)
(* 112-121).  A work item no thread has taken yet is cancelled with the    *)
(* future; a running one is left running.                                  *)
Abandon(r) ==
    /\ pc[r] = "waiting"
    /\ fut[r] = "cancelled"
    /\ ReleaseCapture(r)
    /\ pc' = [pc EXCEPT ![r] = "returned"]
    /\ outcome' = [outcome EXCEPT ![r] =
            Some(FailureOutcome(r, ErrorFor("TimeoutError", timeout[r])))]
    /\ worker' = [worker EXCEPT ![r] = AfterCancel(@)]
    /\ work_queue' = SelectSeq(work_queue, LAMBDA q : q # r)
    /\ UNCHANGED << request, timeout, stdout_capture, stderr_capture, exec_globals,
                    builtins, old_stdout, old_stderr, ip, fut, host_writes, steps >>

(***************************************************************************)
(* The host process shows a warning: get_instance_info imports             *)
(* pkg_resources (line 181) and health_check imports torch (line 137), and *)
(* the warnings of an import are written to sys.stderr, whatever it is at  *)
(* that moment (line 87 replaces it process-wide).                         *)
(***************************************************************************)
HostWrite ==
    /\ host_writes < MaxHostWrites
    /\ host_writes' = host_writes + 1
    /\ stderr_capture' = Write(stderr_capture, sys_stderr, Host)
    /\ UNCHANGED << request, pc, timeout, stdout_capture, exec_globals, builtins,
                    sys_stdout, sys_stderr, old_stdout, old_stderr, worker, ip,
                    work_queue, fut, outcome, steps >>

Next ==
    \/ \E r \in Req :
            \/ Submit(r)
            \/ WorkerStart(r)
            \/ WorkerStep(r)
            \/ Complete(r)
            \/ Deadline(r)
            \/ Abandon(r)
    \/ HostWrite

Spec == Init /\ [][Next]_vars

(* The event loop is never blocked by a worker (exec runs in the pool), so  *)
(* a supervisor whose wait is over is resumed.                              *)
LiveSpec == Spec /\ \A r \in Req : WF_vars(Complete(r)) /\ WF_vars(Abandon(r))

(***************************************************************************)
(* Vocabulary of the properties.                                           *)
(***************************************************************************)
CodeOf(r) == request[r][1].code

Arrived(r) == request[r] # None

Returned(r) == outcome[r] # None

Out(r) == outcome[r][1]

(* The worker reported back (returned or raised) before the deadline. *)
ReportedBack(r) == fut[r] \notin {"none", "pending", "cancelled"}

(* Pieces of text written by w that the sequence of pieces holds. *)
CountOf(w, text) == Cardinality({i \in DOMAIN text : text[i] = w})

(* Statements of kind op the worker of r has executed so far. *)
Executed(r, op) == Cardinality({i \in 1..ip[r] : Program(CodeOf(r))[i][1] = op})

(* C1: text printed by one request's code never appears in the stdout or   *)
(* stderr returned for another request.                                    *)
C1_NoForeignOutput ==
    \A r \in Req : Returned(r) =>
        /\ \A i \in DOMAIN Out(r).stdout : Out(r).stdout[i] \in {r, Host}
        /\ \A i \in DOMAIN Out(r).stderr : Out(r).stderr[i] \in {r, Host}

(* C2: when the code of a request returned or raised before the deadline,  *)
(* everything it wrote to stdout / stderr is in the request's own returned *)
(* stdout / stderr.                                                        *)
C2_OwnOutputComplete ==
    \A r \in Req : (Returned(r) /\ ReportedBack(r)) =>
        /\ CountOf(r, Out(r).stdout) = Executed(r, "print")
        /\ CountOf(r, Out(r).stderr) = Executed(r, "eprint")

(* C3: a returned outcome has success=true or an error, never both and     *)
(* never neither, and an outcome with an error carries no result.          *)
C3_SuccessXorError ==
    \A r \in Req : Returned(r) =>
        /\ (Out(r).success = TRUE) # (Out(r).error # None)
        /\ (Out(r).error # None => Out(r).result = None)

(* C3 witness: a run bound `result`, then failed, and its outcome is out. *)
C3_Witness ==
    \E r \in Req :
        /\ Returned(r)
        /\ Out(r).error # None
        /\ "result" \in DOMAIN exec_globals[r]

(* C4: once the deadline has passed with the code still running, the       *)
(* supervisor returns success=false, the error "Execution timed out after  *)
(* T seconds" for the timeout T it was called with, and no result; this    *)
(* holds for each request whatever the workers and the other requests do.  *)
C4_TimeoutReturned ==
    \A r \in Req :
        (pc[r] = "waiting" /\ fut[r] = "cancelled")
            ~> ( /\ pc[r] = "returned"
                 /\ Returned(r)
                 /\ Out(r).success = FALSE
                 /\ Out(r).result = None
                 /\ Out(r).error = << "Execution timed out after ",
                                      ToString(timeout[r]), " seconds" >> )

(* C4 witness: a timeout was returned for a request whose worker is still  *)
(* in its endless loop, while another request is in flight.                *)
C4_Witness ==
    \E r, q \in Req :
        /\ r # q
        /\ Returned(r)
        /\ Out(r).error = << "Execution timed out after ", "2", " seconds" >>
        /\ worker[r] = "running"
        /\ Program(CodeOf(r))[ip[r] + 1] = <<"loop">>
        /\ pc[q] = "waiting"

(* C5: whatever the executed code raises, the supervisor returns an        *)
(* outcome; no failure leaves execute_code_with_timeout.                   *)
C5_AlwaysEnvelope ==
    \A r \in Req : pc[r] # "crashed"

C7_MinOfRequested ==
    \A r \in Req : (Arrived(r) /\ pc[r] # "rejected") =>
        timeout[r] = IF request[r][1].timeout = None
                     THEN PYTHON_EXECUTE_TIMEOUT
                     ELSE IF request[r][1].timeout[1] <= PYTHON_EXECUTE_TIMEOUT
                          THEN request[r][1].timeout[1]
                          ELSE PYTHON_EXECUTE_TIMEOUT

(* C8: in a successful outcome result is the value bound to `result` in    *)
(* the scope of that run when the code finished, absent when the code      *)
(* bound none; in an error or timeout outcome result is absent, whatever   *)
(* the code bound.                                                         *)
C8_ResultExtraction ==
    \A r \in Req : Returned(r) =>
        /\ (Out(r).success /\ "result" \in DOMAIN exec_globals[r])
              => Out(r).result = << exec_globals[r].result >>
        /\ (Out(r).success /\ "result" \notin DOMAIN exec_globals[r])
              => Out(r).result = None
        /\ ~Out(r).success => Out(r).result = None

(* C8 witness: one run succeeded with result 42 and another one bound      *)
(* `result` and then raised or timed out.                                  *)
C8_Witness ==
    \E r, q \in Req :
        /\ Returned(r) /\ Out(r).success /\ Out(r).result = << "42" >>
        /\ Returned(q) /\ ~Out(q).success /\ "result" \in DOMAIN exec_globals[q]

(* C9: when the code raised before the deadline, the outcome has           *)
(* success=false, an error that starts with the name of the raised class   *)
(* followed by its message, and the text written before the failure        *)
(* (stated for the failures that are answered with an outcome).            *)
C9_RuntimeFailure ==
    \A r \in Req : (Returned(r) /\ ReportedBack(r) /\ fut[r] # "finished") =>
        /\ Out(r).success = FALSE
        /\ Out(r).error # None
        /\ Len(Out(r).error) >= 3
        /\ Out(r).error[1] = fut[r]
        /\ Out(r).error[3] = Message(fut[r])
        /\ CountOf(r, Out(r).stdout) = Executed(r, "print")
        /\ CountOf(r, Out(r).stderr) = Executed(r, "eprint")

(* C10: nothing written by the code of one request is observable by the    *)
(* code of another request.                                                *)
C10_NoSharedState ==
    \A r \in Req :
        (Arrived(r) /\ <<"leak">> \notin {Program(CodeOf(r))[i] : i \in DOMAIN Program(CodeOf(r))})
            => \/ "result" \notin DOMAIN exec_globals[r]
               \/ exec_globals[r].result # "leaked"

(* The code of r passes the check of the handler and compiles. *)
Valid(r) == Strip(CodeOf(r)) # "" /\ Compile(CodeOf(r)) = None

(* Step b of request r, wherever it was done, came after a step a. *)
Ordered(r, a, b) ==
    \A j \in DOMAIN steps[r] : steps[r][j] = b =>
        \E i \in DOMAIN steps[r] : i < j /\ steps[r][i] = a

(* C11: a request with valid code and a positive timeout is never answered *)
(* without its code having been run: executions that hang cannot exhaust   *)
(* the pool.                                                               *)
C11_CodeIsRun ==
    \A r \in Req : (Returned(r) /\ Valid(r) /\ timeout[r] > 0) =>
        worker[r] \in {"running", "done"}

(* C12: the error "Execution timed out after T seconds" is returned only   *)
(* when the deadline passed before the worker reported back.               *)
C12_TimeoutOnlyAtDeadline ==
    \A r \in Req : (Returned(r) /\ Out(r).error # None
                        /\ Out(r).error[1] = "Execution timed out after ") =>
        fut[r] = "cancelled"

(* C13: an error that begins with "Syntax error:" is returned only when    *)
(* the code did not compile: no worker was dispatched and stdout and       *)
(* stderr are empty.                                                       *)
C13_SyntaxErrorOnlyFromCompile ==
    \A r \in Req : (Returned(r) /\ Out(r).error # None
                        /\ Out(r).error[1] = "Syntax error: ") =>
        /\ Compile(CodeOf(r)) # None
        /\ worker[r] = "none"
        /\ Out(r).stdout = << >>
        /\ Out(r).stderr = << >>

(* C14: a request whose code is empty or whitespace only is rejected       *)
(* before the supervisor is called: nothing is compiled, no capture is     *)
(* installed and no worker is dispatched.                                  *)
C14_BlankRejected ==
    \A r \in Req : (Arrived(r) /\ CodeOf(r) \in {"", "  \n"}) =>
        /\ pc[r] = "rejected"
        /\ outcome[r] = None
        /\ steps[r] = << >>
        /\ worker[r] = "none"
        /\ fut[r] = "none"
        /\ \A i \in DOMAIN work_queue : work_queue[i] # r
        /\ sys_stdout # Buffer(r)
        /\ sys_stderr # Buffer(r)
        /\ \A q \in Req : old_stdout[q] # Buffer(r) /\ old_stderr[q] # Buffer(r)

(* C14 witness: a whitespace-only code was rejected while another request  *)
(* is in flight.                                                           *)
C14_Witness ==
    \E r, q \in Req :
        /\ Arrived(r)
        /\ CodeOf(r) = "  \n"
        /\ pc[r] = "rejected"
        /\ pc[q] = "waiting"

(* C15: once the supervisor of every request has returned, sys.stdout and  *)
(* sys.stderr are the streams that were in place before the first request. *)
C15_StreamsRestored ==
    (\A r \in Req : pc[r] # "waiting") =>
        (sys_stdout = Original /\ sys_stderr = Original)

C17_HostOutputNotCaptured ==
    \A r \in Req : Returned(r) =>
        /\ \A i \in DOMAIN Out(r).stdout : Out(r).stdout[i] # Host
        /\ \A i \in DOMAIN Out(r).stderr : Out(r).stderr[i] # Host

(* C18: the deadline and the timeout response leave a running worker       *)
(* running: a worker stops only by executing the last statement of its     *)
(* code, and until then it holds its thread of the pool, so that a work    *)
(* item is taken only while fewer than PoolSize workers are running.       *)
C18_WorkerNotStopped ==
    [][ \A r \in Req :
          /\ (worker[r] = "running" /\ worker'[r] # "running")
                => (worker'[r] = "done" /\ ip'[r] = ip[r] + 1)
          /\ (worker[r] = "running" /\ worker'[r] = "running")
                => ip'[r] \in {ip[r], ip[r] + 1}
          /\ (worker[r] = "queued" /\ worker'[r] = "running")
                => Cardinality({q \in Req : worker[q] = "running"}) < PoolSize
      ]_vars

(* C18 witness: the timeout of r was answered before its code printed      *)
(* (the returned stdout is empty), the worker went on and printed into the *)
(* buffer of r afterwards, and it is still running.                        *)
C18_Witness ==
    \E r \in Req :
        /\ Returned(r)
        /\ Out(r).error = << "Execution timed out after ", "2", " seconds" >>
        /\ Out(r).stdout = << >>
        /\ stdout_capture[r] = << r >>
        /\ Hung(r)

(* C19: an accepted request dispatches at most one worker, exactly one     *)
(* when its code compiles, and its code is never dispatched or executed a  *)
(* second time, whatever the outcome.                                      *)
C19_OneDispatch ==
    \A r \in Req : Arrived(r) =>
        /\ CountOf("dispatch", steps[r]) = (IF Valid(r) THEN 1 ELSE 0)
        /\ CountOf("exec", steps[r]) <= 1
        /\ CountOf(r, work_queue) = (IF worker[r] = "queued" THEN 1 ELSE 0)
        /\ ~Valid(r) => worker[r] = "none"
        /\ ip[r] <= Len(Program(CodeOf(r)))

(* C19 witness: a request timed out, another one raised, and each code     *)
(* was executed once.                                                      *)
C19_Witness ==
    \E r, q \in Req :
        /\ Returned(r) /\ fut[r] = "cancelled" /\ CountOf("exec", steps[r]) = 1
        /\ Returned(q) /\ fut[q] = "ValueError" /\ CountOf("exec", steps[q]) = 1

=============================================================================
